---- MODULE Spec2Model ----
(***************************************************************************)
(* Model of src/server/node/core/handler.js of OS.js: the session store,   *)
(* the privilege checks of DefaultHandler, the method tables filled by     *)
(* registerMethods and the wrappers they hold, the system login and the    *)
(* storage of the settings.                                                *)
(*                                                                         *)
(* JavaScript values are tagged records: [t |-> "undefined"],              *)
(* [t |-> "null"], [t |-> "boolean", b |-> ...], [t |-> "string",          *)
(* s |-> ...], [t |-> "array", a |-> <<...>>] (an array of strings).       *)
(* Every callback-style function is modelled by the callback invocations   *)
(* it makes: the default implementations call back synchronously.          *)
(***************************************************************************)
EXTENDS Integers, Sequences, FiniteSets, TLC

VARIABLES
  nw,         \* instance.setup.nw: the trusted (NW.js) mode
  apiGroups,  \* instance.config.api.groups
  vfsGroups,  \* instance.config.vfs.groups
  metadata,   \* instance.metadata
  api,        \* instance.api: the API method table
  vfs,        \* instance.vfs: the VFS method table
  stage,      \* "new" before module.exports.init, "ready" after it
  regs,       \* number of registerMethods calls made after init
  session,    \* request.session: the keys username and groups
  sys,        \* the onSystemLogin or onSystemSettings call in progress
  last        \* the latest operation: its inputs and what it did

vars == <<nw, apiGroups, vfsGroups, metadata, api, vfs, stage, regs, session, sys, last>>

-----------------------------------------------------------------------------
(* Bounds                                                                  *)

\* longest list of groups a login stores
MaxGroups == 2
\* registerMethods calls made after module.exports.init has returned
MaxRegs == 1

-----------------------------------------------------------------------------
(* JavaScript values                                                       *)

Undefined == [t |-> "undefined"]
Null == [t |-> "null"]
Bool(b) == [t |-> "boolean", b |-> b]
Str(s) == [t |-> "string", s |-> s]
Arr(a) == [t |-> "array", a |-> a]

\* ToBoolean: undefined, null, false and "" are falsy; arrays and objects truthy
Truthy(v) ==
  CASE v.t = "undefined" -> FALSE
    [] v.t = "null" -> FALSE
    [] v.t = "boolean" -> v.b
    [] v.t = "string" -> v.s # ""
    [] OTHER -> TRUE

\* a || b
Or(a, b) == IF Truthy(a) THEN a ELSE b

\* Array.prototype.indexOf on an array of strings: first index from 0, or -1
IndexOf(a, x) ==
  IF \E i \in 1..Len(a) : a[i] = x
  THEN (CHOOSE i \in 1..Len(a) : a[i] = x /\ \A j \in 1..(i - 1) : a[j] # x) - 1
  ELSE -1

\* obj[key] of a configuration map
Lookup(map, key) == IF key \in DOMAIN map THEN map[key] ELSE Undefined

\* JSON.stringify: undefined has no JSON text, every other value has one
JSONstringify(v) == IF v.t = "undefined" THEN Undefined ELSE [t |-> "json", v |-> v]

\* JSON.parse of the stored value: undefined is coerced to the text
\* "undefined", which is a SyntaxError; null is coerced to the text "null"
JSONparse(s) ==
  CASE s.t = "undefined" -> [threw |-> TRUE, value |-> Undefined]
    [] s.t = "null" -> [threw |-> FALSE, value |-> Null]
    [] s.t = "json" -> [threw |-> FALSE, value |-> s.v]
    [] OTHER -> [threw |-> TRUE, value |-> Undefined]

-----------------------------------------------------------------------------
(* Messages                                                                *)

NoSessionError == "You have no OS.js Session, please log in!"
APIError == "You are not allowed to use this API function!"
VFSError == "You are not allowed to use this VFS function!"
PackageError == "You are not allowed to load this Package"

ignorePrivilegesAPI == <<"login">>

\* the list without getMime
ignorePrivilegesVFS_NoMime == <<"getRealPath">>

ignorePrivilegesVFS == <<"getMime", "getRealPath">>

-----------------------------------------------------------------------------
(* Runs: what one call did.  trace lists the functions entered, evaluated  *)
(* the requirements handed to _checkHasGroup, inner the invocations of the *)
(* callbacks that the wrappers hand to the checks, cbs the invocations of  *)
(* the caller's callback, execs the registered handlers executed, threw    *)
(* whether an exception left the call.                                     *)

Run(trace, evaluated, inner, cbs, execs, threw) ==
  [trace |-> trace, evaluated |-> evaluated, inner |-> inner, cbs |-> cbs,
   execs |-> execs, threw |-> threw]

NoRun == Run(<<>>, <<>>, <<>>, <<>>, <<>>, FALSE)

\* callback(err, res)
Callback(err, res) == Run(<<>>, <<>>, <<>>, <<[err |-> err, res |-> res]>>, <<>>, FALSE)

Throw == Run(<<>>, <<>>, <<>>, <<>>, <<>>, TRUE)

\* the function name is entered, arg being the name it is called for
EnterFor(name, arg) == Run(<<[fn |-> name, arg |-> arg]>>, <<>>, <<>>, <<>>, <<>>, FALSE)

Enter(name) == EnterFor(name, "")

\* r1 followed by r2; nothing follows an exception
Seqn(r1, r2) ==
  IF r1.threw THEN r1
  ELSE Run(r1.trace \o r2.trace, r1.evaluated \o r2.evaluated, r1.inner \o r2.inner,
           r1.cbs \o r2.cbs, r1.execs \o r2.execs, r2.threw)

\* the run of a call whose callback was a function of the caller, not the
\* caller's callback: its invocations are kept apart
Inner(r) == [r EXCEPT !.inner = r.inner \o r.cbs, !.cbs = <<>>]

-----------------------------------------------------------------------------
(* Session accessors                                                       *)

getUserName(s) == s.username

getUserGroups(s) ==
  LET p == JSONparse(s.groups)
  IN  IF p.threw THEN Arr(<<>>) ELSE p.value

\* the reply of the default getUserBlacklistedPackages: callback(false, [])
getUserBlacklistedPackages == [error |-> Bool(FALSE), list |-> Arr(<<>>)]

\* a logout that clears the username alone
setUserData_KeepsGroups(s, data) ==
  IF data.t = "null"
  THEN [username |-> Null, groups |-> s.groups]
  ELSE [username |-> data.username, groups |-> JSONstringify(data.groups)]

\* setUserData(request, response, data, callback): the session afterwards
setUserData(s, data) ==
  IF data.t = "null"
  THEN [username |-> Null, groups |-> Null]
  ELSE [username |-> data.username, groups |-> JSONstringify(data.groups)]

-----------------------------------------------------------------------------
(* The group check and the session check                                   *)

\* the loop with the flag set anew by every name: the last name decides
RECURSIVE ForEachGroup_LastWins(_, _, _, _)
ForEachGroup_LastWins(groups, groupnames, i, allowed) ==
  IF i > Len(groupnames) THEN allowed
  ELSE ForEachGroup_LastWins(groups, groupnames, i + 1, IndexOf(groups, groupnames[i]) >= 0)

\* the loop of _checkHasGroup: groupnames.forEach clears the flag for every
\* name that the user's groups lack, and visits every name
RECURSIVE ForEachGroup(_, _, _, _)
ForEachGroup(groups, groupnames, i, allowed) ==
  IF i > Len(groupnames) THEN allowed
  ELSE ForEachGroup(groups, groupnames, i + 1,
                    IF IndexOf(groups, groupnames[i]) < 0 THEN FALSE ELSE allowed)

\* the check without the test for 'admin': every user goes through the loop
_checkHasGroup_NoBypass(s, groupnames) ==
  LET g1 == Or(groupnames, Arr(<<>>))
      g2 == IF g1.t = "string" THEN Arr(<<g1.s>>) ELSE g1
      groups == getUserGroups(s)
  IN  IF groups.t # "array"
      THEN [threw |-> TRUE, err |-> Undefined, res |-> Undefined]
      ELSE [threw |-> FALSE, err |-> Bool(FALSE),
            res |-> Bool(ForEachGroup(groups.a, g2.a, 1, TRUE))]

\* _checkHasGroup(request, response, groupnames, callback): the reply handed
\* to the callback, or threw when groups.indexOf is applied to a non-array.
\* After the first two statements groupnames is an array, so the typeof test
\* always passes (a requirement is undefined, false, a string or an array).
_checkHasGroup(s, groupnames) ==
  LET g1 == Or(groupnames, Arr(<<>>))
      g2 == IF g1.t = "string" THEN Arr(<<g1.s>>) ELSE g1
      groups == getUserGroups(s)
  IN  IF groups.t # "array"
      THEN [threw |-> TRUE, err |-> Undefined, res |-> Undefined]
      ELSE IF IndexOf(groups.a, "admin") < 0
      THEN [threw |-> FALSE, err |-> Bool(FALSE),
            res |-> Bool(ForEachGroup(groups.a, g2.a, 1, TRUE))]
      ELSE [threw |-> FALSE, err |-> Bool(FALSE), res |-> Bool(TRUE)]

\* the part of a run that a call of _checkHasGroup contributes
GroupRun(groupnames, g) ==
  Run(<<[fn |-> "_checkHasGroup", arg |-> ""]>>, <<groupnames>>, <<>>, <<>>, <<>>, g.threw)

\* the run of a call of _checkHasGroup with the caller's callback
checkHasGroup(s, groupnames) ==
  LET g == _checkHasGroup(s, groupnames)
  IN  Seqn(GroupRun(groupnames, g), Callback(g.err, g.res))

\* only a missing username counts as no session, the empty one passes
_checkHasSession_EmptyPasses(nwf, s) ==
  IF ~nwf /\ getUserName(s).t \in {"undefined", "null"}
  THEN [err |-> Str(NoSessionError), res |-> Undefined]
  ELSE [err |-> Bool(FALSE), res |-> Bool(TRUE)]

\* _checkHasSession(request, response, callback): the reply
_checkHasSession(nwf, s) ==
  IF ~nwf /\ ~Truthy(getUserName(s))
  THEN [err |-> Str(NoSessionError), res |-> Undefined]
  ELSE [err |-> Bool(FALSE), res |-> Bool(TRUE)]

\* _checkHasBlacklistedPackage(request, response, packageName, callback):
\* the reply, given the reply of getUserBlacklistedPackages
_checkHasBlacklistedPackage(reply, packageName) ==
  IF Truthy(reply.error)
  THEN [err |-> reply.error, res |-> Bool(FALSE)]
  ELSE [err |-> Bool(FALSE),
        res |-> Bool(IndexOf(Or(reply.list, Arr(<<>>)).a, packageName) >= 0)]

-----------------------------------------------------------------------------
(* The privilege checks                                                    *)

\* _checkHasAPIPrivilege(request, response, privilege, callback)
_checkHasAPIPrivilege(s, map, privilege) ==
  IF privilege # "" /\ Truthy(Lookup(map, privilege))
  THEN LET g == _checkHasGroup(s, Str(privilege))
           err == IF ~Truthy(g.res) /\ ~Truthy(g.err) THEN Str(APIError) ELSE g.err
       IN  Seqn(Enter("_checkHasAPIPrivilege"),
                Seqn(GroupRun(Str(privilege), g), Callback(err, g.res)))
  ELSE Seqn(Enter("_checkHasAPIPrivilege"), Callback(Bool(FALSE), Bool(TRUE)))

\* checkAPIPrivilege(request, response, privilege, callback)
checkAPIPrivilege(nwf, s, map, privilege) ==
  LET c == _checkHasSession(nwf, s)
  IN  Seqn(Seqn(EnterFor("checkAPIPrivilege", privilege), Enter("_checkHasSession")),
           IF Truthy(c.err) THEN Callback(c.err, Undefined)
           ELSE _checkHasAPIPrivilege(s, map, privilege))

-----------------------------------------------------------------------------
(* The VFS check.  A path is the string proto "://" rest; the protocol of a *)
(* mount is a string kept as its pieces, <<"home", "://">>.                *)

Path(proto, rest) == [t |-> "path", proto |-> proto, rest |-> rest]

Protocol(pieces) == [t |-> "protocol", pieces |-> pieces]

Mount(protocol) == [t |-> "object", protocol |-> protocol]

\* instance.vfs.getRealPath(path, config, request) of the VFS module: how is
\* what the resolver does with the path, "mount" being the documented
\* result, a mount whose protocol ends in "://"
getRealPath(how, path) ==
  CASE how = "throw" -> [threw |-> TRUE, mount |-> Undefined]
    [] how = "null" -> [threw |-> FALSE, mount |-> Null]
    [] how = "bare" -> [threw |-> FALSE, mount |-> Mount(Undefined)]
    [] OTHER -> IF path.t = "path"
                THEN [threw |-> FALSE, mount |-> Mount(Protocol(<<path.proto, "://">>))]
                ELSE [threw |-> TRUE, mount |-> Undefined]

\* the protocol is looked up as it is
StripProtocol_Kept(p) == p

\* protocol.replace(/\:\/\/$/, ''): a trailing "://" is removed
StripProtocol(p) ==
  LET n == Len(p.pieces)
  IN  IF n > 0 /\ p.pieces[n] = "://" THEN Protocol(SubSeq(p.pieces, 1, n - 1)) ELSE p

\* cfg[key] for a key given in pieces: only a one-piece key names an entry
LookupProtocol(cfg, p) ==
  IF Len(p.pieces) = 1 THEN Lookup(cfg, p.pieces[1]) ELSE Undefined

\* the try block of _checkHasVFSPrivilege: against, undefined when
\* mount.protocol.replace throws (no mount, or a mount without protocol)
Against(cfg, mount) ==
  IF mount.t # "object" THEN Undefined
  ELSE IF mount.protocol.t # "protocol" THEN Undefined
  ELSE LookupProtocol(cfg, StripProtocol(mount.protocol))

\* _checkHasVFSPrivilege(request, response, method, args, callback); table is
\* instance.vfs, whose getRealPath is called outside the try block
_checkHasVFSPrivilege(s, table, cfg, method, args, how) ==
  LET reply == getRealPath(how, Or(args.path, args.src))
      against == Against(cfg, reply.mount)
      g == _checkHasGroup(s, against)
      err == IF ~Truthy(g.res) /\ ~Truthy(g.err) THEN Str(VFSError) ELSE g.err
  IN  Seqn(Enter("_checkHasVFSPrivilege"),
        IF ~Truthy(table["getRealPath"]) \/ reply.threw
        THEN Throw
        ELSE Seqn(Enter("getRealPath"),
               IF Truthy(against)
               THEN Seqn(GroupRun(against, g), Callback(err, g.res))
               ELSE Callback(Bool(FALSE), Bool(TRUE))))

\* checkVFSPrivilege(request, response, method, args, callback)
checkVFSPrivilege(nwf, s, table, cfg, method, args, how) ==
  LET c == _checkHasSession(nwf, s)
  IN  Seqn(Seqn(EnterFor("checkVFSPrivilege", method), Enter("_checkHasSession")),
           IF Truthy(c.err) THEN Callback(c.err, Undefined)
           ELSE _checkHasVFSPrivilege(s, table, cfg, method, args, how))

-----------------------------------------------------------------------------
(* The package check                                                       *)

\* notallowed(err) of _checkHasPackagePrivilege
notallowed(err) == Callback(Or(err, Str(PackageError)), Undefined)

\* _checkHasPackagePrivilege(request, response, packageName, callback); reply
\* is what getUserBlacklistedPackages hands to its callback
_checkHasPackagePrivilege(s, packages, packageName, reply) ==
  LET groups == Lookup(packages, packageName)
      g == _checkHasGroup(s, groups)
      b == _checkHasBlacklistedPackage(reply, packageName)
  IN  Seqn(Enter("_checkHasPackagePrivilege"),
        IF Truthy(groups)
        THEN Seqn(GroupRun(groups, g),
               IF Truthy(g.err) THEN notallowed(g.err)
               ELSE IF Truthy(g.res)
               THEN Seqn(Enter("_checkHasBlacklistedPackage"),
                      IF Truthy(b.err) \/ ~Truthy(b.res)
                      THEN notallowed(b.err)
                      ELSE Callback(Bool(FALSE), Bool(TRUE)))
               ELSE notallowed(Undefined))
        ELSE Callback(Bool(FALSE), Bool(TRUE)))

\* checkPackagePrivilege(request, response, packageName, callback)
checkPackagePrivilege(nwf, s, packages, packageName, reply) ==
  LET c == _checkHasSession(nwf, s)
  IN  Seqn(Seqn(EnterFor("checkPackagePrivilege", packageName), Enter("_checkHasSession")),
           IF Truthy(c.err) THEN Callback(c.err, Undefined)
           ELSE _checkHasPackagePrivilege(s, packages, packageName, reply))

-----------------------------------------------------------------------------
(* Login and logout                                                        *)

\* {} and the object handed to the callback of onLogin
EmptyObject == [t |-> "object", keys |-> {}]

User(id, username, name, groups) ==
  [t |-> "object", id |-> id, username |-> username, name |-> name, groups |-> groups]

LoginData(userData, userSettings, blacklistedPackages) ==
  [t |-> "object", userData |-> userData, userSettings |-> userSettings,
   blacklistedPackages |-> blacklistedPackages]

\* onLogin(request, response, data, callback); reply is what
\* getUserBlacklistedPackages hands to its callback.  The session after
\* the call and the run.
onLogin(s, data, reply) ==
  LET d1 == [data EXCEPT !.userSettings = Or(data.userSettings, EmptyObject)]
      d2 == [d1 EXCEPT !.blacklistedPackages = Or(reply.list, Arr(<<>>))]
  IN  [session |-> setUserData(s, d1.userData),
       run |-> Seqn(Enter("onLogin"),
                 IF Truthy(d1.blacklistedPackages)
                 THEN Callback(Bool(FALSE), d1)
                 ELSE Seqn(Enter("getUserBlacklistedPackages"),
                        IF Truthy(reply.error)
                        THEN Seqn(Callback(reply.error, Undefined), Callback(Bool(FALSE), d1))
                        ELSE Callback(Bool(FALSE), d2)))]

\* onLogout(request, response, callback)
onLogout(s) ==
  [session |-> setUserData(s, Null),
   run |-> Seqn(Enter("onLogout"), Callback(Bool(FALSE), Bool(TRUE)))]

-----------------------------------------------------------------------------
(* The system login and the storage of settings.  A path is the sequence   *)
(* of its segments; the text of a file is [t |-> "json", v |-> value] when *)
(* it is the JSON text of value, [t |-> "garbage"] when it is no JSON; a   *)
(* parsed object is [t |-> "object", map |-> its properties].              *)

Num(n) == [t |-> "number", n |-> n]

Object(map) == [t |-> "object", map |-> map]

\* String(v) of a username put into a path
ToStr(v) ==
  CASE v.t = "string" -> v.s
    [] v.t = "null" -> "null"
    [] OTHER -> "undefined"

\* path.replace('%USERNAME%', username): the first occurrence is replaced
Replace(path, username) ==
  IF \E i \in 1..Len(path) : path[i] = "%USERNAME%"
  THEN LET k == CHOOSE i \in 1..Len(path) :
                  path[i] = "%USERNAME%" /\ \A j \in 1..(i - 1) : path[j] # "%USERNAME%"
       IN  [path EXCEPT ![k] = ToStr(username)]
  ELSE path

\* getSettingsPath(cfg, username)
getSettingsPath(cfg, username) ==
  IF username = Str("root") THEN <<"root">> ELSE Replace(cfg.settings, username)

\* _path.dirname(spath)
Dirname(path) == SubSeq(path, 1, Len(path) - 1)

\* obj[key]: a TypeError on null and undefined, the property of an object,
\* undefined on an array or a primitive for a key that is no index
GetProp(obj, key) ==
  CASE obj.t \in {"null", "undefined"} -> [threw |-> TRUE, value |-> Undefined]
    [] obj.t = "object" /\ "map" \in DOMAIN obj ->
         [threw |-> FALSE, value |-> Lookup(obj.map, ToStr(key))]
    [] OTHER -> [threw |-> FALSE, value |-> Undefined]

\* what _fs.readFile hands to its callback: (err, data)
Read(err, data) == [err |-> err, data |-> data]

\* the callback of readFile in getUserSettings of onSystemLogin: the value
\* handed to cb
onSystemLogin_getUserSettings(read) ==
  LET p == JSONparse(read.data)
  IN  IF ~Truthy(read.err) /\ Truthy(read.data) /\ ~p.threw THEN p.value ELSE EmptyObject

\* the callback without the default: cb(list[login.username])
onSystemLogin_getUserGroups_NoDefault(read, username) ==
  LET p == JSONparse(read.data)
      list == IF ~Truthy(read.err) /\ ~p.threw THEN p.value ELSE EmptyObject
      v == GetProp(list, username)
  IN  IF v.threw THEN [threw |-> TRUE, value |-> Undefined]
      ELSE [threw |-> FALSE, value |-> v.value]

\* the callback of readFile in getUserGroups of onSystemLogin: the value
\* handed to cb, or threw; list[login.username] is outside the try block
onSystemLogin_getUserGroups(read, username) ==
  LET p == JSONparse(read.data)
      list == IF ~Truthy(read.err) /\ ~p.threw THEN p.value ELSE EmptyObject
      v == GetProp(list, username)
  IN  IF v.threw THEN [threw |-> TRUE, value |-> Undefined]
      ELSE [threw |-> FALSE, value |-> Or(v.value, Arr(<<>>))]

\* the callback of readFile in getUserBlacklist of onSystemLogin: the value
\* handed to cb; JSON.parse(bdata)[login.username] is inside the try block
onSystemLogin_getUserBlacklist(read, username) ==
  LET p == JSONparse(read.data)
      v == GetProp(p.value, username)
  IN  IF ~Truthy(read.err) /\ Truthy(read.data) /\ ~p.threw /\ ~v.threw
      THEN Or(v.value, Arr(<<>>))
      ELSE Arr(<<>>)

\* the data that done(data, settings, blacklist) of onSystemLogin hands to
\* onLogin, data being {id: uid, groups: groups, name: login.username}
done(username, uid, groups, settings, blacklist) ==
  LoginData(User(uid, username, username, groups), settings, blacklist)

\* the nesting with done called from the callback of getUserBlacklist
onSystemLogin_next_NoUid(lookup) ==
  CASE lookup = "settings" -> "groups"
    [] lookup = "groups" -> "blacklist"
    [] lookup = "blacklist" -> "done"
    [] lookup = "uid" -> "done"

\* the nesting of the callbacks of onSystemLogin: what the callback of a
\* lookup starts
onSystemLogin_next(lookup) ==
  CASE lookup = "settings" -> "groups"
    [] lookup = "groups" -> "blacklist"
    [] lookup = "blacklist" -> "uid"
    [] lookup = "uid" -> "done"

\* the second value telling whether the write succeeded: callback(err || false, !err)
onSystemSettings_written_Succeeded(err) == Callback(Or(err, Bool(FALSE)), Bool(~Truthy(err)))

\* the callback of writeFile in onSystemSettings: callback(err || false, !!err)
onSystemSettings_written(err) == Callback(Or(err, Bool(FALSE)), Bool(Truthy(err)))

-----------------------------------------------------------------------------
(* Method registration.  A function is a raw handler, named by where it    *)
(* comes from, or a wrapper made by registerAPIMethod or registerVFSMethod *)
(* around the function fref for the method name fn.                        *)

Raw(origin, name) == [t |-> "function", k |-> "raw", origin |-> origin, name |-> name]

\* the function(args, callback, request, response, config, h) of registerAPIMethod
APIWrapper(fn, fref) == [t |-> "function", k |-> "api", fn |-> fn, fref |-> fref]

\* the function(args, callback, request, response) of registerVFSMethod
VFSWrapper(fn, fref) == [t |-> "function", k |-> "vfs", fn |-> fn, fref |-> fref]

\* registerAPIMethod without the test of instance.api[fn]: the last one wins
registerAPIMethod_Unguarded(table, fn, fref) ==
  IF IndexOf(ignorePrivilegesAPI, fn) < 0
  THEN [table EXCEPT ![fn] = APIWrapper(fn, fref)]
  ELSE [table EXCEPT ![fn] = fref]

\* registerAPIMethod(handler, instance, fn, fref): instance.api afterwards
registerAPIMethod(table, fn, fref) ==
  IF ~Truthy(table[fn])
  THEN IF IndexOf(ignorePrivilegesAPI, fn) < 0
       THEN [table EXCEPT ![fn] = APIWrapper(fn, fref)]
       ELSE [table EXCEPT ![fn] = fref]
  ELSE table

\* registerVFSMethod(handler, instance, fn, fref): instance.vfs afterwards
registerVFSMethod(table, fn, fref) ==
  IF ~Truthy(table[fn])
  THEN IF IndexOf(ignorePrivilegesVFS, fn) < 0
       THEN [table EXCEPT ![fn] = VFSWrapper(fn, fref)]
       ELSE [table EXCEPT ![fn] = fref]
  ELSE table

\* Object.keys(api).forEach of registerMethods; an object of methods is the
\* sequence of its properties [fn, fref], in key order
RECURSIVE ForEachAPI(_, _, _)
ForEachAPI(table, methods, i) ==
  IF i > Len(methods) THEN table
  ELSE ForEachAPI(registerAPIMethod(table, methods[i].fn, methods[i].fref), methods, i + 1)

\* Object.keys(vfs).forEach of registerMethods
RECURSIVE ForEachVFS(_, _, _)
ForEachVFS(table, methods, i) ==
  IF i > Len(methods) THEN table
  ELSE ForEachVFS(registerVFSMethod(table, methods[i].fn, methods[i].fref), methods, i + 1)

\* registerMethods(handler, instance, api, vfs): both tables afterwards
registerMethods(tables, apiMethods, vfsMethods) ==
  [api |-> ForEachAPI(tables.api, apiMethods, 1),
   vfs |-> ForEachVFS(tables.vfs, vfsMethods, 1)]

\* the methods that the constructor of NWHandler hands to DefaultHandler
NWMethods == <<[fn |-> "login", fref |-> Raw("nw", "login")],
               [fn |-> "logout", fref |-> Raw("nw", "logout")]>>

\* the fixed identity as a plain user
NWUser_NotAdmin == User(0, Str("nw"), Str("NW.js User"), Arr(<<"users">>))

\* the userData of the login method of NWHandler
NWUser == User(0, Str("nw"), Str("NW.js User"), Arr(<<"admin">>))

-----------------------------------------------------------------------------
(* Calling a registered function.  env holds what the function reads:      *)
(* nw, apiGroups, vfsGroups, vfs (the table) and session; how holds what   *)
(* the collaborators do during the call: realpath and blacklist.           *)

\* the handler fref runs, with these arguments and this callback
Exec(fref, args, callback) ==
  Run(<<[fn |-> "fref", arg |-> fref.name]>>, <<>>, <<>>, <<>>,
      <<[fref |-> fref, args |-> args, callback |-> callback]>>, FALSE)

\* the body of a raw handler: the two methods of NWHandler call onLogin and
\* onLogout with the caller's callback, every other handler is the server's
CallRaw(f, env, args, how) ==
  IF f.origin = "nw" /\ f.name = "login"
  THEN LET r == onLogin(env.session, LoginData(NWUser, Undefined, Undefined), how.blacklist)
       IN  [session |-> r.session, run |-> Seqn(Exec(f, args, "callback"), r.run)]
  ELSE IF f.origin = "nw" /\ f.name = "logout"
  THEN LET r == onLogout(env.session)
       IN  [session |-> r.session, run |-> Seqn(Exec(f, args, "callback"), r.run)]
  ELSE [session |-> env.session, run |-> Exec(f, args, "callback")]

\* the wrapper without the return after callback(err): fref runs all the same
CallAPIWrapper_NoReturn(f, env, args, next) ==
  LET c == checkAPIPrivilege(env.nw, env.session, env.apiGroups, f.fn)
  IN  IF c.threw \/ Len(c.cbs) = 0
      THEN [session |-> env.session, run |-> Inner(c)]
      ELSE IF Truthy(c.cbs[1].err)
      THEN [session |-> next.session,
            run |-> Seqn(Inner(c), Seqn(Callback(c.cbs[1].err, Undefined), next.run))]
      ELSE [session |-> next.session, run |-> Seqn(Inner(c), next.run)]

\* the wrapper of registerAPIMethod called with (args, callback, ...); next is
\* what fref.apply(fref, [args, callback, ...]) does
CallAPIWrapper(f, env, args, next) ==
  LET c == checkAPIPrivilege(env.nw, env.session, env.apiGroups, f.fn)
  IN  IF c.threw \/ Len(c.cbs) = 0
      THEN [session |-> env.session, run |-> Inner(c)]
      ELSE IF Truthy(c.cbs[1].err)
      THEN [session |-> env.session,
            run |-> Seqn(Inner(c), Callback(c.cbs[1].err, Undefined))]
      ELSE [session |-> next.session, run |-> Seqn(Inner(c), next.run)]

\* the wrapper with its two checks in the other order
CallVFSWrapper_VFSFirst(f, env, args, how, next) ==
  LET c1 == checkVFSPrivilege(env.nw, env.session, env.vfs, env.vfsGroups,
                              f.fn, args, how.realpath)
      c2 == checkAPIPrivilege(env.nw, env.session, env.apiGroups, "fs")
  IN  IF c1.threw \/ Len(c1.cbs) = 0
      THEN [session |-> env.session, run |-> Inner(c1)]
      ELSE IF Truthy(c1.cbs[1].err)
      THEN [session |-> env.session,
            run |-> Seqn(Inner(c1), Callback(c1.cbs[1].err, Undefined))]
      ELSE IF c2.threw \/ Len(c2.cbs) = 0
      THEN [session |-> env.session, run |-> Seqn(Inner(c1), Inner(c2))]
      ELSE IF Truthy(c2.cbs[1].err)
      THEN [session |-> env.session,
            run |-> Seqn(Inner(c1), Seqn(Inner(c2), Callback(c2.cbs[1].err, Undefined)))]
      ELSE [session |-> next.session,
            run |-> Seqn(Inner(c1), Seqn(Inner(c2), next.run))]

\* the wrapper of registerVFSMethod called with (args, callback, ...); next is
\* what fref.apply(fref, [args, request, callback, ...]) does
CallVFSWrapper(f, env, args, how, next) ==
  LET c1 == checkAPIPrivilege(env.nw, env.session, env.apiGroups, "fs")
      c2 == checkVFSPrivilege(env.nw, env.session, env.vfs, env.vfsGroups,
                              f.fn, args, how.realpath)
  IN  IF c1.threw \/ Len(c1.cbs) = 0
      THEN [session |-> env.session, run |-> Inner(c1)]
      ELSE IF Truthy(c1.cbs[1].err)
      THEN [session |-> env.session,
            run |-> Seqn(Inner(c1), Callback(c1.cbs[1].err, Undefined))]
      ELSE IF c2.threw \/ Len(c2.cbs) = 0
      THEN [session |-> env.session, run |-> Seqn(Inner(c1), Inner(c2))]
      ELSE IF Truthy(c2.cbs[1].err)
      THEN [session |-> env.session,
            run |-> Seqn(Inner(c1), Seqn(Inner(c2), Callback(c2.cbs[1].err, Undefined)))]
      ELSE [session |-> next.session,
            run |-> Seqn(Inner(c1), Seqn(Inner(c2), next.run))]

RECURSIVE Call(_, _, _, _)
\* f(args, callback, ...): the session after the call and the run
Call(f, env, args, how) ==
  IF f.k = "raw" THEN CallRaw(f, env, args, how)
  ELSE IF f.k = "api" THEN CallAPIWrapper(f, env, args, Call(f.fref, env, args, how))
  ELSE CallVFSWrapper(f, env, args, how, Call(f.fref, env, args, how))

-----------------------------------------------------------------------------
(* The bounded inputs                                                      *)

GroupNames == {"admin", "users", "editors"}

\* lists of distinct group names, at most MaxGroups long
GroupLists ==
  {q \in UNION {[1..n -> GroupNames] : n \in 0..MaxGroups} :
     \A i, j \in 1..Len(q) : i # j => q[i] # q[j]}

\* group requirements of the configuration: absent, false, one name, a list
Requirements == {Undefined, Bool(FALSE), Str("users"), Arr(<<"users", "editors">>)}

\* group requirements of the mounts; nobody but an admin passes "trusted"
MountRequirements ==
  {Undefined, Bool(FALSE), Arr(<<"trusted">>), Arr(<<"users", "editors">>)}

\* requirements handed to _checkHasGroup: absent, false, a single name, a
\* list, the empty list; no user holds "trusted"
GroupRequirements ==
  {Undefined, Bool(FALSE), Str("users"), Str("trusted"), Arr(<<>>),
   Arr(<<"users", "editors">>), Arr(<<"editors", "trusted">>)}

APINames == {"login", "logout", "curl"}
VFSNames == {"getMime", "getRealPath", "read"}

\* privileges handed to checkAPIPrivilege: the wrapped methods and "fs"
Privileges == {"logout", "curl", "fs"}

Packages == {"foo/bar", "games/chess"}

\* the arguments of an API method
APIArgs == {Str("a"), Undefined}

\* what a backend's getUserBlacklistedPackages may hand to its callback; the
\* first is the reply of DefaultHandler
BlacklistReplies ==
  {getUserBlacklistedPackages,
   [error |-> Bool(FALSE), list |-> Arr(<<"foo/bar">>)],
   [error |-> Bool(FALSE), list |-> Undefined],
   [error |-> Str("blacklist unavailable"), list |-> Undefined]}

\* what instance.vfs.getRealPath may do
RealPaths == {"mount", "bare", "null", "throw"}

\* the arguments of a VFS method
VFSArgs ==
  {[path |-> p, src |-> q] : p \in {Undefined, Path("home", "/a")},
                             q \in {Undefined, Path("shared", "/b")}}

\* the users a backend logs in: userData carries the groups as a list
LoginUsers ==
  {User(1, Str("alice"), Str("alice"), Arr(q)) : q \in GroupLists}
    \cup {User(2, Str(""), Str(""), Arr(<<"users">>))}

\* the login data a backend hands to onLogin and the reply of its
\* getUserBlacklistedPackages: every user with the default reply, and one
\* user with every blacklist and every reply
Logins ==
  {[data |-> LoginData(u, Undefined, Undefined), reply |-> getUserBlacklistedPackages] :
     u \in LoginUsers}
    \cup {[data |-> LoginData(User(1, Str("alice"), Str("alice"), Arr(<<"users">>)),
                              Undefined, b),
           reply |-> r] : b \in {Undefined, Arr(<<>>), Arr(<<"foo/bar">>)}, r \in BlacklistReplies}

\* the logins handed to onSystemLogin; 'bob' is in no registry file
SystemUsers == {Str("alice"), Str("bob"), Str("root")}

\* the cfg of onSystemLogin and onSystemSettings
SystemConfigs ==
  {[settings |-> <<"home", "%USERNAME%", ".osjs", "settings.json">>,
    groups |-> <<"etc", "osjs", "groups.json">>,
    blacklist |-> <<"etc", "osjs", "blacklist.json">>]}

\* what reading a file may give: an error, a text that is no JSON, the JSON
\* text null, and JSON texts of other values
ReadErrors ==
  {Read(Str("ENOENT"), Undefined), Read(Null, [t |-> "garbage"]),
   Read(Null, [t |-> "json", v |-> Null])}

SettingsReads ==
  ReadErrors \cup {Read(Null, [t |-> "json", v |-> Object([theme |-> Str("dark")])])}

GroupsReads ==
  ReadErrors \cup
    {Read(Null, [t |-> "json", v |-> Arr(<<>>)]),
     Read(Null, [t |-> "json",
                 v |-> Object([alice |-> Arr(<<"users">>), root |-> Arr(<<"admin">>)])])}

BlacklistReads ==
  ReadErrors \cup {Read(Null, [t |-> "json", v |-> Object([alice |-> Arr(<<"foo/bar">>)])])}

\* what getUserId hands to its callback
UserIds == {Num(0), Num(1000)}

\* the settings handed to onSystemSettings
SettingsObjects == {EmptyObject, Object([theme |-> Str("dark")])}

\* the errors of _fs.mkdir and _fs.writeFile: none or one
MkdirErrors == {Null, Str("EEXIST")}
WriteErrors == {Null, Str("EACCES")}

\* the methods the server hands to module.exports.init
ServerAPI == <<[fn |-> "login", fref |-> Raw("server", "login")],
               [fn |-> "logout", fref |-> Raw("server", "logout")],
               [fn |-> "curl", fref |-> Raw("server", "curl")]>>
ServerVFS == <<[fn |-> "getMime", fref |-> Raw("server", "getMime")],
               [fn |-> "getRealPath", fref |-> Raw("server", "getRealPath")],
               [fn |-> "read", fref |-> Raw("server", "read")]>>

-----------------------------------------------------------------------------
(* The state machine                                                       *)

DefaultHow == [realpath |-> "mount", blacklist |-> getUserBlacklistedPackages]

\* the record kept of the request being handled, "none" between requests;
\* before is the session the operation started from
Last(op, target, args, how, before, run) ==
  [op |-> op, target |-> target, args |-> args, how |-> how, before |-> before, run |-> run]

\* the server handles one request at a time
Idle == last.op = "none"

NoSession == [username |-> Undefined, groups |-> Undefined]

\* no onSystemLogin or onSystemSettings call in progress.  pc is the lookup
\* awaited; seen holds what the file system and getUserId handed to the
\* callbacks; settings, groups, blacklist and uid are the variables of the
\* closures; handed is the data handed to onLogin; io lists the calls made
NoSys ==
  [pc |-> "idle", cfg |-> Undefined, username |-> Undefined, completed |-> {},
   seen |-> [settings |-> Undefined, groups |-> Undefined, blacklist |-> Undefined,
             uid |-> Undefined, mkdir |-> Undefined, write |-> Undefined],
   settings |-> Undefined, groups |-> Undefined, blacklist |-> Undefined, uid |-> Undefined,
   handed |-> Undefined, path |-> <<>>, data |-> Undefined, io |-> <<>>]

\* a call made to the file system or to getUserId
IO(call, path, data) == [call |-> call, path |-> path, data |-> data]

Env == [nw |-> nw, apiGroups |-> apiGroups, vfsGroups |-> vfsGroups, vfs |-> vfs,
        session |-> session]

InitInstance ==
  /\ api = [fn \in APINames |-> Undefined]
  /\ vfs = [fn \in VFSNames |-> Undefined]
  /\ stage = "new"
  /\ regs = 0
  /\ session = NoSession
  /\ sys = NoSys
  /\ last = Last("none", "", Undefined, DefaultHow, NoSession, NoRun)

Init ==
  /\ nw \in BOOLEAN
  /\ apiGroups \in {[k \in {"fs", "curl"} |-> IF k = "fs" THEN a ELSE b] :
                      a \in {Undefined, Arr(<<"users">>)}, b \in Requirements}
  /\ vfsGroups \in {[k \in {"home", "shared"} |-> IF k = "home" THEN r ELSE Arr(<<"editors">>)] :
                      r \in MountRequirements}
  /\ metadata \in {[k \in {"foo/bar"} |-> r] :
                     r \in {Undefined, Str("users"), Arr(<<"editors">>)}}
  /\ InitInstance

\* module.exports.init(instance): the handler is constructed, which registers
\* the methods of the backend (of NWHandler in trusted mode), then the
\* methods of the server are registered
init(backendAPI, backendVFS, serverAPI, serverVFS) ==
  /\ stage = "new" /\ Idle
  /\ LET t0 == [api |-> api, vfs |-> vfs]
         t1 == IF nw THEN registerMethods(t0, NWMethods, <<>>)
               ELSE registerMethods(t0, backendAPI, backendVFS)
         t2 == registerMethods(t1, serverAPI, serverVFS)
     IN  /\ api' = t2.api
         /\ vfs' = t2.vfs
  /\ stage' = "ready"
  /\ last' = Last("init", "",
                  [api |-> api, vfs |-> vfs,
                   apiMethods |-> (IF nw THEN NWMethods ELSE backendAPI) \o serverAPI,
                   vfsMethods |-> (IF nw THEN <<>> ELSE backendVFS) \o serverVFS],
                  DefaultHow, session, NoRun)
  /\ UNCHANGED <<sys, nw, apiGroups, vfsGroups, metadata, regs, session>>

\* registerMethods(handler, instance, api, vfs) called once more, as the
\* constructor of a handler does
Register(apiMethods, vfsMethods) ==
  /\ stage = "ready" /\ Idle
  /\ regs < MaxRegs
  /\ regs' = regs + 1
  /\ LET t == registerMethods([api |-> api, vfs |-> vfs], apiMethods, vfsMethods)
     IN  /\ api' = t.api
         /\ vfs' = t.vfs
  /\ last' = Last("registerMethods", "",
                  [api |-> api, vfs |-> vfs,
                   apiMethods |-> apiMethods, vfsMethods |-> vfsMethods],
                  DefaultHow, session, NoRun)
  /\ UNCHANGED <<sys, nw, apiGroups, vfsGroups, metadata, stage, session>>

\* the login method of a backend calls onLogin
LoginWith(logins) ==
  /\ stage = "ready" /\ Idle
  /\ ~nw
  /\ \E l \in logins :
       LET r == onLogin(session, l.data, l.reply)
       IN  /\ session' = r.session
           /\ last' = Last("onLogin", "", l.data,
                           [realpath |-> "mount", blacklist |-> l.reply], session, r.run)
  /\ UNCHANGED <<sys, nw, apiGroups, vfsGroups, metadata, api, vfs, stage, regs>>

\* the logout method of a backend calls onLogout
Logout ==
  /\ stage = "ready" /\ Idle
  /\ ~nw
  /\ LET r == onLogout(session)
     IN  /\ session' = r.session
         /\ last' = Last("onLogout", "", Undefined, DefaultHow, session, r.run)
  /\ UNCHANGED <<sys, nw, apiGroups, vfsGroups, metadata, api, vfs, stage, regs>>

\* the server calls handler.checkAPIPrivilege
CheckAPI ==
  /\ stage = "ready" /\ Idle
  /\ \E privilege \in Privileges :
       last' = Last("checkAPIPrivilege", privilege, Undefined, DefaultHow, session,
                    checkAPIPrivilege(nw, session, apiGroups, privilege))
  /\ UNCHANGED <<sys, nw, apiGroups, vfsGroups, metadata, api, vfs, stage, regs, session>>

\* the server calls handler.checkVFSPrivilege
CheckVFS ==
  /\ stage = "ready" /\ Idle
  /\ \E args \in VFSArgs, realpath \in RealPaths :
       last' = Last("checkVFSPrivilege", "read", args,
                    [realpath |-> realpath, blacklist |-> getUserBlacklistedPackages],
                    session,
                    checkVFSPrivilege(nw, session, vfs, vfsGroups, "read", args, realpath))
  /\ UNCHANGED <<sys, nw, apiGroups, vfsGroups, metadata, api, vfs, stage, regs, session>>

\* the server calls handler.checkPackagePrivilege; the trusted handler keeps
\* the getUserBlacklistedPackages of DefaultHandler
CheckPackage ==
  /\ stage = "ready" /\ Idle
  /\ \E packageName \in Packages,
        reply \in IF nw THEN {getUserBlacklistedPackages} ELSE BlacklistReplies :
       last' = Last("checkPackagePrivilege", packageName, Undefined,
                    [realpath |-> "mount", blacklist |-> reply], session,
                    checkPackagePrivilege(nw, session, metadata, packageName, reply))
  /\ UNCHANGED <<sys, nw, apiGroups, vfsGroups, metadata, api, vfs, stage, regs, session>>

\* a backend calls handler._checkHasGroup
CheckGroup ==
  /\ stage = "ready" /\ Idle
  /\ \E groupnames \in GroupRequirements :
       last' = Last("_checkHasGroup", "", groupnames, DefaultHow, session,
                    checkHasGroup(session, groupnames))
  /\ UNCHANGED <<sys, nw, apiGroups, vfsGroups, metadata, api, vfs, stage, regs, session>>

\* the server calls instance.api[fn](args, callback, request, response, ...)
InvokeAPI ==
  /\ stage = "ready" /\ Idle
  /\ \E fn \in APINames, args \in APIArgs :
       /\ Truthy(api[fn])
       /\ LET r == Call(api[fn], Env, args, DefaultHow)
          IN  /\ session' = r.session
              /\ last' = Last("api", fn, args, DefaultHow, session, r.run)
  /\ UNCHANGED <<sys, nw, apiGroups, vfsGroups, metadata, api, vfs, stage, regs>>

\* the server calls instance.vfs[fn](args, callback, request, response)
InvokeVFS ==
  /\ stage = "ready" /\ Idle
  /\ \E fn \in VFSNames, args \in VFSArgs, realpath \in RealPaths :
       /\ Truthy(vfs[fn])
       /\ vfs[fn].k = "raw" => args = [path |-> Path("home", "/a"), src |-> Undefined]
                                 /\ realpath = "mount"
       /\ LET how == [realpath |-> realpath, blacklist |-> getUserBlacklistedPackages]
              r == Call(vfs[fn], Env, args, how)
          IN  /\ session' = r.session
              /\ last' = Last("vfs", fn, args, how, session, r.run)
  /\ UNCHANGED <<sys, nw, apiGroups, vfsGroups, metadata, api, vfs, stage, regs>>

\* onSystemLogin(request, response, cfg, login, getUserId, callback) is
\* called: getUserSettings starts to read the settings file
SystemLogin ==
  /\ stage = "ready" /\ Idle
  /\ ~nw
  /\ \E username \in SystemUsers, cfg \in SystemConfigs :
       /\ sys' = [NoSys EXCEPT !.pc = "settings", !.cfg = cfg, !.username = username,
                               !.io = <<IO("readFile", getSettingsPath(cfg, username),
                                           Undefined)>>]
       /\ last' = Last("onSystemLogin", "", username, DefaultHow, session,
                       Enter("onSystemLogin"))
  /\ UNCHANGED <<nw, apiGroups, vfsGroups, metadata, api, vfs, stage, regs, session>>

\* the call that starts a lookup of onSystemLogin
Issue(lookup, cfg) ==
  CASE lookup = "groups" -> IO("readFile", cfg.groups, Undefined)
    [] lookup = "blacklist" -> IO("readFile", cfg.blacklist, Undefined)
    [] lookup = "uid" -> IO("getUserId", <<>>, Undefined)

\* the callback of a lookup received value: it starts the next lookup, or
\* calls done, which calls onLogin with the caller's callback
Continue(lookup, outcome, value) ==
  LET s1 == [sys EXCEPT ![lookup] = value, !.seen[lookup] = outcome,
                        !.completed = @ \cup {lookup}]
      next == onSystemLogin_next(lookup)
      data == done(sys.username, s1.uid, s1.groups, s1.settings, s1.blacklist)
      r == onLogin(session, data, getUserBlacklistedPackages)
  IN  /\ IF next = "done"
         THEN /\ sys' = [s1 EXCEPT !.pc = "done", !.handed = data]
              /\ session' = r.session
              /\ last' = [last EXCEPT !.run = Seqn(@, r.run)]
         ELSE /\ sys' = [s1 EXCEPT !.pc = next, !.io = Append(@, Issue(next, sys.cfg))]
              /\ UNCHANGED <<session, last>>
      /\ UNCHANGED <<nw, apiGroups, vfsGroups, metadata, api, vfs, stage, regs>>

\* the callback of readFile in getUserSettings
SettingsRead ==
  /\ sys.pc = "settings"
  /\ \E read \in SettingsReads :
       Continue("settings", read, onSystemLogin_getUserSettings(read))

\* the callback of readFile in getUserGroups; an exception leaves it when
\* list[login.username] throws
GroupsRead ==
  /\ sys.pc = "groups"
  /\ \E read \in GroupsReads :
       LET g == onSystemLogin_getUserGroups(read, sys.username)
       IN  IF g.threw
           THEN /\ sys' = [sys EXCEPT !.pc = "threw", !.seen.groups = read]
                /\ last' = [last EXCEPT !.run = Seqn(@, Throw)]
                /\ UNCHANGED <<nw, apiGroups, vfsGroups, metadata, api, vfs, stage, regs,
                               session>>
           ELSE Continue("groups", read, g.value)

\* the callback of readFile in getUserBlacklist
BlacklistRead ==
  /\ sys.pc = "blacklist"
  /\ \E read \in BlacklistReads :
       Continue("blacklist", read, onSystemLogin_getUserBlacklist(read, sys.username))

\* the callback handed to getUserId
UserId ==
  /\ sys.pc = "uid"
  /\ \E uid \in UserIds : Continue("uid", uid, uid)

\* onSystemSettings(request, response, cfg, settings, callback) is called:
\* the directory of the settings path is created
SystemSettings ==
  /\ stage = "ready" /\ Idle
  /\ ~nw
  /\ \E cfg \in SystemConfigs, settings \in SettingsObjects :
       LET uname == getUserName(session)
           data == JSONstringify(settings)
           spath == getSettingsPath(cfg, uname)
       IN  /\ sys' = [NoSys EXCEPT !.pc = "mkdir", !.cfg = cfg, !.username = uname,
                                   !.path = spath, !.data = data,
                                   !.io = <<IO("mkdir", Dirname(spath), Undefined)>>]
           /\ last' = Last("onSystemSettings", "", settings, DefaultHow, session,
                           Enter("onSystemSettings"))
  /\ UNCHANGED <<nw, apiGroups, vfsGroups, metadata, api, vfs, stage, regs, session>>

\* the callback of _fs.mkdir: whatever it is handed, the file is written
MkdirDone ==
  /\ sys.pc = "mkdir"
  /\ \E err \in MkdirErrors :
       sys' = [sys EXCEPT !.pc = "write", !.seen.mkdir = err,
                          !.io = Append(@, IO("writeFile", sys.path, sys.data))]
  /\ UNCHANGED <<nw, apiGroups, vfsGroups, metadata, api, vfs, stage, regs, session, last>>

\* the callback of _fs.writeFile
WriteDone ==
  /\ sys.pc = "write"
  /\ \E err \in WriteErrors :
       /\ sys' = [sys EXCEPT !.pc = "done", !.seen.write = err]
       /\ last' = [last EXCEPT !.run = Seqn(@, onSystemSettings_written(err))]
  /\ UNCHANGED <<nw, apiGroups, vfsGroups, metadata, api, vfs, stage, regs, session>>

\* the callback has returned: the request is over
EndRequest ==
  /\ ~Idle
  /\ sys.pc \in {"idle", "done", "threw"}
  /\ sys' = NoSys
  /\ last' = Last("none", "", Undefined, DefaultHow, NoSession, NoRun)
  /\ UNCHANGED <<nw, apiGroups, vfsGroups, metadata, api, vfs, stage, regs, session>>

Startup == init(<<>>, <<>>, ServerAPI, ServerVFS)

Login == LoginWith(Logins)

Next ==
  \/ Startup
  \/ Login
  \/ Logout
  \/ CheckAPI
  \/ CheckVFS
  \/ CheckPackage
  \/ CheckGroup
  \/ InvokeAPI
  \/ InvokeVFS
  \/ EndRequest

Spec == Init /\ [][Next]_vars

-----------------------------------------------------------------------------
(* The registration of methods, with one configuration and every order of  *)
(* backend, server and later registrations                                 *)

\* the methods of a backend, of the server and of a later registration
Methods(origin, names) == [i \in 1..Len(names) |-> [fn |-> names[i], fref |-> Raw(origin, names[i])]]

BackendAPIs == {<<>>, Methods("backend", <<"login", "logout">>), Methods("backend", <<"curl">>)}
BackendVFSs == {<<>>, Methods("backend", <<"read">>)}
ServerAPIs == {ServerAPI, Methods("server", <<"login", "logout">>)}
ServerVFSs == {ServerVFS, Methods("server", <<"getRealPath", "read">>)}
LaterAPIs == {<<>>} \cup {Methods("later", <<fn>>) : fn \in APINames}
LaterVFSs == {<<>>} \cup {Methods("later", <<fn>>) : fn \in VFSNames}

InitReg ==
  /\ nw \in BOOLEAN
  /\ apiGroups = [k \in {"fs", "curl"} |-> IF k = "fs" THEN Undefined ELSE Str("users")]
  /\ vfsGroups = [k \in {"home", "shared"} |->
                    IF k = "home" THEN Arr(<<"trusted">>) ELSE Arr(<<"editors">>)]
  /\ metadata = [k \in {"foo/bar"} |-> Arr(<<"editors">>)]
  /\ InitInstance

StartupAny ==
  \E backendAPI \in BackendAPIs, backendVFS \in BackendVFSs,
     serverAPI \in ServerAPIs, serverVFS \in ServerVFSs :
    init(backendAPI, backendVFS, serverAPI, serverVFS)

RegisterLater ==
  \E apiMethods \in LaterAPIs, vfsMethods \in LaterVFSs : Register(apiMethods, vfsMethods)

LoginOne ==
  LoginWith({[data |-> LoginData(User(1, Str("alice"), Str("alice"), Arr(<<"users">>)),
                                 Undefined, Undefined),
              reply |-> getUserBlacklistedPackages]})

NextReg ==
  \/ StartupAny
  \/ RegisterLater
  \/ LoginOne
  \/ Logout
  \/ InvokeAPI
  \/ InvokeVFS
  \/ EndRequest

SpecReg == InitReg /\ [][NextReg]_vars

-----------------------------------------------------------------------------
(* The session through logins, system logins, the login of the trusted     *)
(* backend and logouts, and the storage of settings, with one configuration *)

NextSys ==
  \/ Startup
  \/ Login
  \/ Logout
  \/ InvokeAPI
  \/ SystemLogin
  \/ SettingsRead
  \/ GroupsRead
  \/ BlacklistRead
  \/ UserId
  \/ SystemSettings
  \/ MkdirDone
  \/ WriteDone
  \/ EndRequest

SpecSys == InitReg /\ [][NextSys]_vars

\* the file system and getUserId call back: the callback of a lookup that
\* onSystemLogin has started eventually runs
SpecSysFair ==
  /\ InitReg /\ [][NextSys]_vars
  /\ WF_vars(SettingsRead)
  /\ WF_vars(GroupsRead)
  /\ WF_vars(BlacklistRead)
  /\ WF_vars(UserId)

-----------------------------------------------------------------------------
(* What the specification says of a check, stated on sets                  *)

Range(q) == {q[i] : i \in 1..Len(q)}

\* the request has a session: a non-empty username
HasSession(s) == s.username.t = "string" /\ s.username.s # ""

\* the groups of the user of a session, as a set
UserGroups(s) ==
  IF s.groups.t = "json" /\ s.groups.v.t = "array" THEN Range(s.groups.v.a) ELSE {}

\* the groups a requirement names, a single name being the set of that name
Required(req) ==
  CASE req.t = "string" -> {req.s}
    [] req.t = "array" -> Range(req.a)
    [] OTHER -> {}

\* the user is an admin or holds every required group
Satisfies(s, req) == "admin" \in UserGroups(s) \/ Required(req) \subseteq UserGroups(s)

\* the callback was invoked once, without an error
Allows(run) == ~run.threw /\ Len(run.cbs) = 1 /\ ~Truthy(run.cbs[1].err)

\* the callback was invoked once, with this error
Denies(run, message) == ~run.threw /\ Len(run.cbs) = 1 /\ run.cbs[1].err = Str(message)

\* the package is on the list that the blacklist collaborator replied
Blacklisted(reply, packageName) ==
  ~Truthy(reply.error) /\ reply.list.t = "array" /\ packageName \in Range(reply.list.a)

\* the collaborator replied a list and the package is not on it
NotBlacklisted(reply, packageName) ==
  ~Truthy(reply.error) /\ reply.list.t = "array" /\ packageName \notin Range(reply.list.a)

-----------------------------------------------------------------------------
(* Claims                                                                  *)

\* C1: checkPackagePrivilege, for a request with a session, allows when the
\* package has a groups requirement that the user's groups satisfy and the
\* package is not on the user's blacklist.
C1_AllowsWhenNotBlacklisted ==
  (/\ last.op = "checkPackagePrivilege"
   /\ HasSession(last.before)
   /\ Truthy(Lookup(metadata, last.target))
   /\ Satisfies(last.before, Lookup(metadata, last.target))
   /\ NotBlacklisted(last.how.blacklist, last.target))
  => Allows(last.run)

\* C2: checkPackagePrivilege, for a request with a session, denies with "not
\* allowed to load this Package" when the groups requirement of the package
\* is satisfied but the package is on the user's blacklist; an allow needs
\* both the group gate and the blacklist gate.
C2_DeniesWhenBlacklisted ==
  (/\ last.op = "checkPackagePrivilege"
   /\ HasSession(last.before)
   /\ Truthy(Lookup(metadata, last.target)))
  => /\ (Satisfies(last.before, Lookup(metadata, last.target))
           /\ Blacklisted(last.how.blacklist, last.target))
        => Denies(last.run, PackageError)
     /\ Allows(last.run)
        => (Satisfies(last.before, Lookup(metadata, last.target))
              /\ ~Blacklisted(last.how.blacklist, last.target))

\* C3: checkAPIPrivilege, for a request with a session: no entry or a falsy
\* entry for the method in the API table allows; otherwise it allows iff the
\* user is an admin or holds every group of the requirement mapped to the
\* method, the requirement evaluated is that mapped requirement, and a deny
\* carries "not allowed to use this API function".
C3_APIPrivilegeByMappedGroups ==
  (last.op = "checkAPIPrivilege" /\ HasSession(last.before))
  => LET req == Lookup(apiGroups, last.target)
     IN  IF ~Truthy(req) THEN Allows(last.run)
         ELSE /\ Allows(last.run) <=> Satisfies(last.before, req)
              /\ ~Allows(last.run) => Denies(last.run, APIError)

\* the path that a VFS request names: args.path, or args.src without it
Named(args) == IF args.path.t = "path" THEN args.path ELSE args.src

\* C4: checkVFSPrivilege, for a request with a session whose path resolves
\* to a mount: the protocol of the mount without its trailing "://" is the
\* key into the VFS table; no entry or a falsy entry allows; otherwise it
\* allows iff the user is an admin or holds every group of the mapped
\* requirement, and a deny carries "not allowed to use this VFS function".
C4_VFSPrivilegeByMount ==
  (/\ last.op = "checkVFSPrivilege"
   /\ HasSession(last.before)
   /\ last.how.realpath = "mount"
   /\ Named(last.args).t = "path")
  => LET req == Lookup(vfsGroups, Named(last.args).proto)
     IN  IF ~Truthy(req) THEN Allows(last.run)
         ELSE /\ Allows(last.run) <=> Satisfies(last.before, req)
              /\ ~Allows(last.run) => Denies(last.run, VFSError)

\* an admin is allowed on a mount that requires "trusted"
C4_Witness ==
  /\ last.op = "checkVFSPrivilege"
  /\ last.how.realpath = "mount"
  /\ last.args.path = Path("home", "/a")
  /\ vfsGroups["home"] = Arr(<<"trusted">>)
  /\ HasSession(last.before)
  /\ UserGroups(last.before) = {"admin"}
  /\ Allows(last.run)

\* C5: checkVFSPrivilege fails open: for a request with a session, when the
\* path resolver throws, or returns no mount or a mount without protocol, or
\* the protocol has no mapped requirement, the callback is invoked with an
\* allow and no exception leaves the check.
C5_VFSFailOpen ==
  (/\ last.op = "checkVFSPrivilege"
   /\ HasSession(last.before)
   /\ \/ last.how.realpath \in {"throw", "null", "bare"}
      \/ /\ last.how.realpath = "mount"
         /\ Named(last.args).t = "path"
         /\ ~Truthy(Lookup(vfsGroups, Named(last.args).proto)))
  => Allows(last.run)

\* the function that the second stage of a check enters
Resolution(op) ==
  CASE op = "checkAPIPrivilege" -> "_checkHasAPIPrivilege"
    [] op = "checkVFSPrivilege" -> "_checkHasVFSPrivilege"
    [] op = "checkPackagePrivilege" -> "_checkHasPackagePrivilege"

\* C6: outside trusted mode, with a username that is absent or empty, each
\* of the three checks hands the "no session" error to its callback and
\* evaluates no group, mount or blacklist; with a non-empty username the
\* session stage passes and the specific resolution runs.
C6_SessionShortCircuit ==
  (last.op \in {"checkAPIPrivilege", "checkVFSPrivilege", "checkPackagePrivilege"} /\ ~nw)
  => IF ~HasSession(last.before)
     THEN /\ last.run.trace = <<[fn |-> last.op, arg |-> last.target],
                                [fn |-> "_checkHasSession", arg |-> ""]>>
          /\ last.run.evaluated = <<>>
          /\ last.run.cbs = <<[err |-> Str(NoSessionError), res |-> Undefined]>>
          /\ ~last.run.threw
     ELSE /\ Len(last.run.trace) >= 3
          /\ last.run.trace[3].fn = Resolution(last.op)

\* a login with the empty username, then a VFS check that stops at the session
C6_Witness ==
  /\ ~nw
  /\ last.op = "checkVFSPrivilege"
  /\ last.before.username = Str("")
  /\ Denies(last.run, NoSessionError)

\* the places of the trace at which the function name is entered
Entries(run, name) == {i \in 1..Len(run.trace) : run.trace[i].fn = name}

\* C7: a call of a wrapped API method runs checkAPIPrivilege for that method
\* first; on denial the caller's callback receives the denial error and the
\* handler does not run; on approval the handler runs exactly once, with the
\* caller's arguments and callback.
C7_APIWrapperChecksFirst ==
  (last.op = "api" /\ api[last.target].k = "api")
  => LET r == last.run
         ran == [fref |-> api[last.target].fref, args |-> last.args, callback |-> "callback"]
     IN  /\ r.trace[1] = [fn |-> "checkAPIPrivilege", arg |-> last.target]
         /\ Entries(r, "checkAPIPrivilege") = {1}
         /\ Len(r.inner) <= 1
         /\ (Len(r.inner) = 1 /\ Truthy(r.inner[1].err))
            => /\ r.cbs = <<[err |-> r.inner[1].err, res |-> Undefined]>>
               /\ r.execs = <<>>
         /\ (Len(r.inner) = 1 /\ ~Truthy(r.inner[1].err))
            => /\ r.execs = <<ran>>
               /\ \A i \in Entries(r, "fref") : i > 1
         /\ Len(r.inner) = 0 => r.execs = <<>>

\* the wrapped curl is denied to a logged-in user by the group check
C7_Witness ==
  /\ last.op = "api"
  /\ last.target = "curl"
  /\ api["curl"].k = "api"
  /\ HasSession(last.before)
  /\ Denies(last.run, APIError)
  /\ last.run.execs = <<>>

\* C8: a call of a wrapped VFS method first runs checkAPIPrivilege for "fs"
\* and only then checkVFSPrivilege for the method; a denial of either stage
\* goes to the caller's callback and the handler does not run; a denial of
\* the "fs" stage leaves checkVFSPrivilege unrun; the handler runs only
\* after both stages have passed.
C8_VFSWrapperTwoStages ==
  (last.op = "vfs" /\ vfs[last.target].k = "vfs")
  => LET r == last.run
         ran == [fref |-> vfs[last.target].fref, args |-> last.args, callback |-> "callback"]
     IN  /\ r.trace[1] = [fn |-> "checkAPIPrivilege", arg |-> "fs"]
         /\ \A i \in Entries(r, "checkVFSPrivilege") :
              /\ i > 1
              /\ r.trace[i].arg = last.target
              /\ Len(r.inner) >= 1 /\ ~Truthy(r.inner[1].err)
         /\ (Len(r.inner) >= 1 /\ Truthy(r.inner[1].err))
            => /\ r.cbs = <<[err |-> r.inner[1].err, res |-> Undefined]>>
               /\ r.execs = <<>>
               /\ Entries(r, "checkVFSPrivilege") = {}
         /\ (Len(r.inner) >= 1 /\ ~Truthy(r.inner[1].err))
            => Cardinality(Entries(r, "checkVFSPrivilege")) = 1
         /\ (Len(r.inner) = 2 /\ Truthy(r.inner[2].err))
            => /\ r.cbs = <<[err |-> r.inner[2].err, res |-> Undefined]>>
               /\ r.execs = <<>>
         /\ r.execs # <<>>
            => /\ r.execs = <<ran>>
               /\ Len(r.inner) = 2
               /\ ~Truthy(r.inner[1].err) /\ ~Truthy(r.inner[2].err)
               /\ \A i \in Entries(r, "fref"), j \in Entries(r, "checkVFSPrivilege") : i > j

\* the "fs" stage passes and the VFS stage denies: read does not run
C8_Witness ==
  /\ last.op = "vfs"
  /\ last.target = "read"
  /\ vfs["read"].k = "vfs"
  /\ Len(last.run.inner) = 2
  /\ ~Truthy(last.run.inner[1].err)
  /\ Denies(last.run, VFSError)
  /\ last.run.execs = <<>>

\* the checks entered during a run
ChecksEntered(run) ==
  Entries(run, "checkAPIPrivilege") \cup Entries(run, "checkVFSPrivilege")
    \cup Entries(run, "_checkHasSession")

\* C9: the API method login and the VFS methods getMime and getRealPath are
\* stored as the raw handler, every other registered method as a wrapper of
\* its handler; a call of one of the three, also without a session outside
\* trusted mode, runs the handler and no privilege or session check.
C9_IgnoredMethodsUnwrapped ==
  /\ \A fn \in APINames :
       Truthy(api[fn])
       => IF fn = "login" THEN api[fn].k = "raw"
          ELSE api[fn].k = "api" /\ api[fn].fn = fn /\ api[fn].fref.k = "raw"
  /\ \A fn \in VFSNames :
       Truthy(vfs[fn])
       => IF fn \in {"getMime", "getRealPath"} THEN vfs[fn].k = "raw"
          ELSE vfs[fn].k = "vfs" /\ vfs[fn].fn = fn /\ vfs[fn].fref.k = "raw"
  /\ (\/ last.op = "api" /\ last.target = "login"
      \/ last.op = "vfs" /\ last.target \in {"getMime", "getRealPath"})
     => /\ ChecksEntered(last.run) = {}
        /\ last.run.inner = <<>>
        /\ Len(last.run.execs) = 1
        /\ last.run.execs[1].fref = (IF last.op = "api" THEN api ELSE vfs)[last.target]
        /\ last.run.trace[1].fn = "fref"

\* getMime runs for a request without a session, outside trusted mode
C9_Witness ==
  /\ ~nw
  /\ last.op = "vfs"
  /\ last.target = "getMime"
  /\ ~HasSession(last.before)
  /\ Len(last.run.execs) = 1
  /\ last.run.cbs = <<>>

\* the handler of the first property named fn, undefined without one
FirstFor(methods, fn) ==
  IF \E i \in 1..Len(methods) : methods[i].fn = fn
  THEN methods[CHOOSE i \in 1..Len(methods) :
                 methods[i].fn = fn /\ \A j \in 1..(i - 1) : methods[j].fn # fn].fref
  ELSE Undefined

\* the entry for fn after the methods were registered on the table before
FirstWins(before, methods, fn, ignored, kind) ==
  LET f == FirstFor(methods, fn)
  IN  IF before[fn].t = "function" THEN before[fn]
      ELSE IF f.t # "function" THEN Undefined
      ELSE IF fn \in ignored THEN f
      ELSE [t |-> "function", k |-> kind, fn |-> fn, fref |-> f]

\* the wrappers around a handler
RECURSIVE Layers(_)
Layers(f) == IF f.k = "raw" THEN 0 ELSE 1 + Layers(f.fref)

\* C10: after any registrations the entry for a name is the one made by the
\* first registration of that name, a later registration of the name leaves
\* the table as it was, no handler has more than one wrapper around it and a
\* call of a wrapped API method runs checkAPIPrivilege exactly once; the
\* login and logout of the trusted backend are not replaced by the server's.
C10_FirstRegistrationWins ==
  /\ last.op \in {"init", "registerMethods"}
     => /\ \A fn \in APINames :
             api[fn] = FirstWins(last.args.api, last.args.apiMethods, fn, {"login"}, "api")
        /\ \A fn \in VFSNames :
             vfs[fn] = FirstWins(last.args.vfs, last.args.vfsMethods, fn,
                                 {"getMime", "getRealPath"}, "vfs")
  /\ \A fn \in APINames : Truthy(api[fn]) => Layers(api[fn]) <= 1
  /\ \A fn \in VFSNames : Truthy(vfs[fn]) => Layers(vfs[fn]) <= 1
  /\ (last.op = "api" /\ api[last.target].k = "api")
     => Cardinality(Entries(last.run, "checkAPIPrivilege")) = 1
  /\ (nw /\ stage = "ready")
     => /\ api["login"] = Raw("nw", "login")
        /\ api["logout"] = APIWrapper("logout", Raw("nw", "logout"))

\* curl is registered once more and the table keeps the earlier entry
C10_Witness ==
  /\ last.op = "registerMethods"
  /\ last.args.apiMethods = Methods("later", <<"curl">>)
  /\ Truthy(last.args.api["curl"])
  /\ api["curl"] = last.args.api["curl"]
  /\ api["curl"].fref.origin # "later"


\* the reply of the group check: (false, allowed)
Replies(run, allowed) ==
  ~run.threw /\ run.cbs = <<[err |-> Bool(FALSE), res |-> Bool(allowed)]>>

\* the stored groups read back as a list: a list stored by a login, or
\* nothing stored
ReadsAsList(s) == s.groups.t = "undefined" \/ (s.groups.t = "json" /\ s.groups.v.t = "array")

\* C11: _checkHasGroup replies allow for every user whose groups contain
\* 'admin' and every requirement: absent, false, a single name, a list, also
\* a list naming a group that no user holds.
C11_AdminBypass ==
  (last.op = "_checkHasGroup" /\ "admin" \in UserGroups(last.before))
  => Replies(last.run, TRUE)

\* an admin passes a requirement that names "trusted"
C11_Witness ==
  /\ last.op = "_checkHasGroup"
  /\ UserGroups(last.before) = {"admin"}
  /\ last.args = Arr(<<"editors", "trusted">>)
  /\ Replies(last.run, TRUE)

\* C12: for a user whose groups do not contain 'admin', _checkHasGroup
\* replies allow when the requirement is absent or false, whatever the
\* groups, also none; otherwise it replies allow iff every required group is
\* among the user's groups, a single name being the list of that name.
C12_SupersetWithoutAdmin ==
  (/\ last.op = "_checkHasGroup"
   /\ ReadsAsList(last.before)
   /\ "admin" \notin UserGroups(last.before))
  => IF ~Truthy(last.args) THEN Replies(last.run, TRUE)
     ELSE Replies(last.run, Required(last.args) \subseteq UserGroups(last.before))

\* a user holding one of the two required groups is denied
C12_Witness ==
  /\ last.op = "_checkHasGroup"
  /\ UserGroups(last.before) = {"editors"}
  /\ last.args = Arr(<<"users", "editors">>)
  /\ Replies(last.run, FALSE)


\* neither a username nor groups: absent, as before any login, or null
Cleared(s) == s.username.t \in {"undefined", "null"} /\ s.groups.t \in {"undefined", "null"}

\* the operation was a logout that ran onLogout: the backend's, or the
\* logout method of the trusted backend
LoggedOut ==
  \/ last.op = "onLogout"
  \/ last.op = "api" /\ last.target = "logout" /\ Entries(last.run, "onLogout") # {}

\* C13: after a logout, whatever identity a login stored before it, the
\* session has neither username nor groups, as before the login; the logout
\* hands (false, true) to its callback; and outside trusted mode a check made
\* on that session ends with the no-session error.
C13_LogoutRestores ==
  /\ LoggedOut
     => /\ Cleared(session)
        /\ last.run.cbs = <<[err |-> Bool(FALSE), res |-> Bool(TRUE)]>>
        /\ ~last.run.threw
  /\ (/\ ~nw
      /\ last.op \in {"checkAPIPrivilege", "checkVFSPrivilege", "checkPackagePrivilege"}
      /\ last.before = [username |-> Null, groups |-> Null])
     => Denies(last.run, NoSessionError)

\* a logout of a user who was logged in with two groups
C13_Witness ==
  /\ last.op = "onLogout"
  /\ HasSession(last.before)
  /\ Cardinality(UserGroups(last.before)) = 2
  /\ Cleared(session)
  /\ Cleared(NoSession)


\* the login data carries a blacklist of its own
Precomputed(data) == data.blacklistedPackages.t = "array"

\* a record that carries a userSettings object and a blacklistedPackages list
Complete(res) ==
  /\ res.t = "object"
  /\ res.userSettings.t = "object"
  /\ res.blacklistedPackages.t = "array"

\* C15: onLogin stores the username and the serialized groups of userData in
\* the session, asks getUserBlacklistedPackages iff the login data carries no
\* blacklist, and on every path, also when getUserBlacklistedPackages reports
\* an error, a record handed to the callback carries a userSettings object
\* and a blacklistedPackages list.
C15_LoginRecordComplete ==
  last.op = "onLogin"
  => /\ session.username = last.args.userData.username
     /\ session.groups = [t |-> "json", v |-> last.args.userData.groups]
     /\ Entries(last.run, "getUserBlacklistedPackages") # {} <=> ~Precomputed(last.args)
     /\ \E i \in 1..Len(last.run.cbs) : last.run.cbs[i].res.t = "object"
     /\ \A i \in 1..Len(last.run.cbs) :
          last.run.cbs[i].res.t = "object" => Complete(last.run.cbs[i].res)


\* C20: onLogin invokes the caller's callback exactly once on every path:
\* with a blacklist in the login data, with a blacklist fetched, and with an
\* error from getUserBlacklistedPackages, which then is what the one
\* invocation carries.
C20_LoginCallsBackOnce ==
  last.op = "onLogin"
  => /\ Len(last.run.cbs) = 1
     /\ (~Precomputed(last.args) /\ Truthy(last.how.blacklist.error))
        => last.run.cbs[1].err = last.how.blacklist.error
     /\ (Precomputed(last.args) \/ ~Truthy(last.how.blacklist.error))
        => ~Truthy(last.run.cbs[1].err)


\* the resolver returned: a mount for the named path, no mount, or a mount
\* without protocol
Resolved(args, how) ==
  /\ how.realpath # "throw"
  /\ how.realpath = "mount" => Named(args).t = "path"

\* the session that the login of the trusted backend leaves
TrustedSession ==
  [username |-> Str("nw"), groups |-> [t |-> "json", v |-> Arr(<<"admin">>)]]

\* C19: in trusted mode the session stage of every check passes, before the
\* login, after it and after a logout; the login method of the trusted
\* backend, whatever its arguments, stores the identity with id 0, username
\* 'nw' and groups ['admin']; and with that identity in the session
\* checkAPIPrivilege and checkVFSPrivilege allow every method and every
\* mount, whatever the privilege map requires.
C19_TrustedBackend ==
  nw
  => /\ last.op \in {"checkAPIPrivilege", "checkVFSPrivilege", "checkPackagePrivilege"}
        => /\ Len(last.run.trace) >= 3
           /\ last.run.trace[3].fn = Resolution(last.op)
           /\ \A i \in 1..Len(last.run.cbs) : last.run.cbs[i].err # Str(NoSessionError)
     /\ (last.op = "api" /\ last.target = "login")
        => /\ session = TrustedSession
           /\ Len(last.run.cbs) = 1
           /\ last.run.cbs[1].err = Bool(FALSE)
           /\ last.run.cbs[1].res.userData.id = 0
           /\ last.run.cbs[1].res.userData.username = Str("nw")
           /\ last.run.cbs[1].res.userData.groups = Arr(<<"admin">>)
     /\ (last.op = "checkAPIPrivilege" /\ last.before = TrustedSession)
        => Allows(last.run)
     /\ (/\ last.op = "checkVFSPrivilege"
         /\ last.before = TrustedSession
         /\ Resolved(last.args, last.how))
        => Allows(last.run)

\* after the trusted login a mount that requires "trusted" is allowed
C19_Witness ==
  /\ nw
  /\ last.op = "checkVFSPrivilege"
  /\ last.before = TrustedSession
  /\ last.how.realpath = "mount"
  /\ last.args.path = Path("home", "/a")
  /\ vfsGroups["home"] = Arr(<<"trusted">>)
  /\ Allows(last.run)


\* C14: in every state that logins, system logins, the login of the trusted
\* backend and logouts lead to, a session with a username also holds the
\* serialized list of the user's groups, possibly the empty list; a username
\* with undefined groups is not reached.
C14_UsernameHasGroups ==
  HasSession(session) => (session.groups.t = "json" /\ session.groups.v.t = "array")

\* a system login of a user that the groups file does not name
C14_Witness ==
  /\ last.op = "onSystemLogin"
  /\ sys.pc = "done"
  /\ sys.seen.groups.err = Null
  /\ session.username = Str("bob")
  /\ session.groups = [t |-> "json", v |-> Arr(<<>>)]


\* the four lookups of onSystemLogin
Lookups == {"settings", "groups", "blacklist", "uid"}

\* C16: during onSystemLogin, as long as one of the four lookups (settings
\* file, groups file, blacklist file, getUserId) has not completed, onLogin
\* has not been called, the session is as it was and the caller's callback
\* has not been invoked; onLogin is called once, after all four, with
\* userData {id, username, name = username, groups} and with the settings
\* and the blacklist that the lookups handed over.
C16_SystemLoginBarrier ==
  last.op = "onSystemLogin"
  => /\ sys.completed # Lookups
        => /\ session = last.before
           /\ Entries(last.run, "onLogin") = {}
           /\ last.run.cbs = <<>>
           /\ sys.handed = Undefined
     /\ sys.pc = "done"
        => /\ sys.completed = Lookups
           /\ Cardinality(Entries(last.run, "onLogin")) = 1
           /\ sys.handed.userData = User(sys.seen.uid, last.args, last.args, sys.groups)
           /\ sys.handed.userSettings = sys.settings
           /\ sys.handed.blacklistedPackages = sys.blacklist
           /\ session.username = last.args
           /\ session.groups = [t |-> "json", v |-> sys.groups]

\* alice is logged in with the uid, the groups and the blacklist looked up
C16_Witness ==
  /\ last.op = "onSystemLogin"
  /\ sys.pc = "done"
  /\ sys.completed = Lookups
  /\ session.username = Str("alice")
  /\ sys.handed.userData.id = Num(1000)
  /\ sys.handed.userData.groups = Arr(<<"users">>)
  /\ sys.handed.blacklistedPackages = Arr(<<"foo/bar">>)
  /\ last.before.username # Str("alice")


\* the read failed: an error, or a text that is no JSON
FailedRead(read) == Truthy(read.err) \/ read.data.t # "json"

\* the read gave no entry for the user: it failed, or the text is not that
\* of a mapping, or the mapping lacks the user
NoEntry(read, username) ==
  \/ FailedRead(read)
  \/ read.data.v.t # "object"
  \/ username.s \notin DOMAIN read.data.v.map

\* C17: whatever the three file reads of onSystemLogin give (an error, a
\* text that is no JSON, JSON that is no mapping or lacks the user, valid
\* content), no exception leaves a callback and no error goes to the
\* caller; a failed settings read gives the settings {}, a groups read
\* without an entry for the user gives groups [] in userData, a blacklist
\* read without one gives the blacklist [], and onLogin is called.
C17_ReadResilience ==
  last.op = "onSystemLogin"
  => /\ ~last.run.threw
     /\ sys.pc # "threw"
     /\ \A i \in 1..Len(last.run.cbs) : ~Truthy(last.run.cbs[i].err)
     /\ sys.pc = "done"
        => /\ Entries(last.run, "onLogin") # {}
           /\ FailedRead(sys.seen.settings) => sys.handed.userSettings = EmptyObject
           /\ NoEntry(sys.seen.groups, last.args) => sys.handed.userData.groups = Arr(<<>>)
           /\ NoEntry(sys.seen.blacklist, last.args)
              => sys.handed.blacklistedPackages = Arr(<<>>)


\* the settings path of a user: the fixed path of root, else the template
\* with the user's name for %USERNAME%
Derived(template, name) ==
  IF name = "root" THEN <<"root">>
  ELSE [i \in DOMAIN template |-> IF template[i] = "%USERNAME%" THEN name ELSE template[i]]

\* C18: onSystemSettings writes the JSON text of the settings to the path
\* derived from the username of the session: the fixed path for root, else
\* the configured template with %USERNAME% replaced; the write is made after
\* mkdir has completed, with or without an error; an error of mkdir is not
\* reported; an error of the write is reported as (error, true).
C18_PersistSettings ==
  last.op = "onSystemSettings"
  => /\ sys.pc = "mkdir" => (Len(sys.io) = 1 /\ last.run.cbs = <<>>)
     /\ sys.pc \in {"write", "done"}
        => /\ Len(sys.io) = 2
           /\ sys.io[2].call = "writeFile"
           /\ sys.io[2].data = [t |-> "json", v |-> last.args]
           /\ HasSession(last.before)
              => sys.io[2].path = Derived(sys.cfg.settings, last.before.username.s)
     /\ sys.pc = "done"
        => /\ Len(last.run.cbs) = 1
           /\ Truthy(sys.seen.write)
              => last.run.cbs[1] = [err |-> sys.seen.write, res |-> Bool(TRUE)]
           /\ ~Truthy(sys.seen.write) => ~Truthy(last.run.cbs[1].err)

\* mkdir and the write both fail for alice: the write error is reported
C18_Witness ==
  /\ last.op = "onSystemSettings"
  /\ sys.pc = "done"
  /\ last.before.username = Str("alice")
  /\ sys.seen.mkdir = Str("EEXIST")
  /\ sys.io[2] = IO("writeFile", <<"home", "alice", ".osjs", "settings.json">>,
                    [t |-> "json", v |-> Object([theme |-> Str("dark")])])
  /\ last.run.cbs = <<[err |-> Str("EACCES"), res |-> Bool(TRUE)]>>


\* the check passed allow or deny to its callback and no exception left it
Decided(run) == ~run.threw /\ Len(run.cbs) = 1

\* C21: in every session that logins and logouts lead to, in trusted and in
\* untrusted mode, the groups read back from the session are a list, a
\* stored value that is absent, null or unparsable reading as the empty
\* list; so every checkAPIPrivilege, checkVFSPrivilege and
\* checkPackagePrivilege on a target with a group requirement passes allow
\* or deny to its callback and no exception leaves it, also in trusted mode
\* after a logout has set groups to null.
C21_GroupsReadAsList ==
  /\ getUserGroups(session).t = "array"
  /\ (last.op = "checkAPIPrivilege" /\ Truthy(Lookup(apiGroups, last.target)))
     => Decided(last.run)
  /\ (/\ last.op = "checkVFSPrivilege"
      /\ last.how.realpath = "mount"
      /\ Named(last.args).t = "path"
      /\ Truthy(Lookup(vfsGroups, Named(last.args).proto)))
     => Decided(last.run)
  /\ (last.op = "checkPackagePrivilege" /\ Truthy(Lookup(metadata, last.target)))
     => Decided(last.run)


\* a system login awaits the completion of a lookup
Pending == last.op = "onSystemLogin" /\ sys.pc \in Lookups

\* the caller's callback of the system login has been invoked, once
InvokedOnce == last.op = "onSystemLogin" /\ Len(last.run.cbs) = 1

\* C22: with every lookup that onSystemLogin starts completing eventually,
\* a system login does not wait for ever, and when it stops waiting the
\* caller's callback has been invoked exactly once; as long as one of the
\* four lookups has not completed the callback has not been invoked and
\* the username and the groups of the session are as they were.
C22_SystemLoginCompletes ==
  /\ [][(Pending /\ ~Pending') => InvokedOnce']_vars
  /\ Pending ~> ~Pending
  /\ [](last.op = "onSystemLogin" => Len(last.run.cbs) <= 1)
  /\ []((last.op = "onSystemLogin" /\ sys.completed # Lookups)
          => /\ last.run.cbs = <<>>
             /\ session.username = last.before.username
             /\ session.groups = last.before.groups)

====
